---- MODULE Spec2Model ----
(***************************************************************************)
(* A model of the kit_test hardware abstraction layer: the three board     *)
(* drivers (MotorBoard, PowerBoard, ServoBoard), their channel objects,    *)
(* the numeric codec and the process-exit cleanup hooks.                   *)
(*                                                                         *)
(* Numbers.  A Python float is kept as an integer count of 1/Unit, where   *)
(* Unit = 1000 * 2^PowerBits.  Every float the model feeds to the codec    *)
(* is a dyadic rational i / 2^PowerBits or a multiple of 1/1000 coming     *)
(* back from map_to_float; on the dyadic inputs every binary64 operation   *)
(* of map_to_int (x - in_min, * (out_max - out_min), / 2.0, + out_min) is  *)
(* exact, so the exact arithmetic below is the arithmetic of the code.     *)
(*                                                                         *)
(* Lines.  A command is the string the code formats.  A response is kept   *)
(* as the sequence of its colon-separated fields, i.e. as the value of     *)
(* response.split(':').                                                    *)
(***************************************************************************)
EXTENDS Integers, Sequences, FiniteSets, TLC

VARIABLES
    proc,      \* "running" | "exited": the Python process
    link,      \* "up" | "down": whether the board is physically attached
    board,     \* the board_type code of the attached board's firmware
    idn,       \* the fields of the firmware's reply to *IDN?
    fw,        \* firmware state of the attached board
    family,    \* driver class that was constructed: "none" | "Motor" | "Power" | "Servo"
    drv,       \* "none" | "ready" (constructor returned) | "failed" (constructor raised)
    serial,    \* the driver's Transport (self._serial)
    hooks,     \* the atexit registry: families whose _cleanup is registered
    op,        \* the last operation performed: [name, ch, arg]
    trace,     \* what the last operation did, in program order
    raised,    \* the exception that left the last operation, or "none"
    ret,       \* the value the last operation returned (floats in 1/Unit)
    lastSet    \* history: per motor channel, the last value given to set_power

vars == <<proc, link, board, idn, fw, family, drv, serial, hooks, op, trace,
          raised, ret, lastSet>>

----------------------------------------------------------------------------
(* Bounds of the model *)

\* floats given to set_power are multiples of 1 / 2^PowerBits
PowerBits == 4
\* ... with numerator in -MaxPowerNum..MaxPowerNum, plus the endpoints -1.0 and 1.0
MaxPowerNum == 3

PowerDen == 2^PowerBits
Unit == 1000 * PowerDen

----------------------------------------------------------------------------
(* Program constants *)

BRAKE == 0
COAST == -1024
BRAIN_OUTPUT == 4
NumOutputs == 7
NumMotors == 2

Families == {"Motor", "Power", "Servo"}
BoardTypes == {"MCv4B", "PBv4B", "SBv4B"}

----------------------------------------------------------------------------
(* utils.py *)

Abs(n) == IF n < 0 THEN -n ELSE n

\* Python int(): the quotient n/d truncated toward zero
TruncDiv(n, d) ==
    LET q == Abs(n) \div Abs(d)
    IN  IF (n < 0) = (d < 0) THEN q ELSE -q

\* Python round(): the quotient n/d rounded to the nearest integer, ties to even
RoundHalfEven(n, d) ==
    LET nn == IF d < 0 THEN -n ELSE n
        dd == Abs(d)
        q  == nn \div dd
        r  == nn - q * dd
    IN  IF 2 * r < dd THEN q
        ELSE IF 2 * r > dd THEN q + 1
        ELSE IF q % 2 = 0 THEN q ELSE q + 1

\* round(v, precision) of a float v (in 1/Unit), result in 1/Unit
PyRound(v, precision) ==
    LET step == Unit \div (10 ^ precision)
    IN  step * RoundHalfEven(v, step)

\* the affine image rounded down (math.floor) instead of toward zero
map_to_int_floor(x, in_min, in_max, out_min, out_max) ==
    LET n == (x - in_min) * (out_max - out_min) + out_min * (in_max - in_min)
        d == in_max - in_min
    IN  IF d < 0 THEN (-n) \div (-d) ELSE n \div d

\* x, in_min, in_max are floats (1/Unit); out_min, out_max are ints.
\* value = (x - in_min) * (out_max - out_min) / (in_max - in_min) + out_min
map_to_int(x, in_min, in_max, out_min, out_max) ==
    TruncDiv((x - in_min) * (out_max - out_min) + out_min * (in_max - in_min),
             in_max - in_min)

\* x, in_min, in_max are ints; out_min, out_max are floats (1/Unit).
\* value = (x - in_min) * (out_max - out_min) / (in_max - in_min) + out_min
map_to_float(x, in_min, in_max, out_min, out_max, precision) ==
    LET step == Unit \div (10 ^ precision)
    IN  step * RoundHalfEven(
            (x - in_min) * (out_max - out_min) + out_min * (in_max - in_min),
            (in_max - in_min) * step)

\* BoardIdentity(*fields): positional fields, the missing ones default to ""
BoardIdentity(fields) ==
    [manufacturer |-> IF Len(fields) >= 1 THEN fields[1] ELSE "",
     board_type   |-> IF Len(fields) >= 2 THEN fields[2] ELSE "",
     asset_tag    |-> IF Len(fields) >= 3 THEN fields[3] ELSE "",
     sw_version   |-> IF Len(fields) >= 4 THEN fields[4] ELSE ""]

\* Python int(token) of a decimal token: the inverse of formatting an int
RECURSIVE DecimalTokens(_, _)
DecimalTokens(lo, hi) ==
    IF lo = hi THEN ToString(lo) :> lo
    ELSE LET mid == (lo + hi) \div 2
         IN  DecimalTokens(lo, mid) @@ DecimalTokens(mid + 1, hi)
IntOfToken == DecimalTokens(-1000, 1000)
ParseInt(token) == IntOfToken[token]

----------------------------------------------------------------------------
(* Events of an operation, in program order *)

Ev(kind, cmd) == [kind |-> kind, cmd |-> cmd]
Writes(cmds) == [i \in 1..Len(cmds) |-> Ev("write", cmds[i])]
Commands(t) == SelectSeq(t, LAMBDA e : e.kind \in {"query", "write"})

----------------------------------------------------------------------------
(* The Transport (SerialWrapper) *)

\* SerialWrapper(port, baud, identity=initial_identity)
SerialWrapper(identity) == [state |-> "open", identity |-> identity, lost |-> FALSE]

\* a Transport that would reopen its port whenever the board is back
TransportError_reopening(s, l) ==
    IF s.state # "open" THEN "PortNotOpenError"
    ELSE IF l = "down" THEN "BoardDisconnectionError"
    ELSE "none"

\* the error a query or write on Transport s raises, "none" when it goes through
TransportError(s, l) ==
    IF s.state # "open" THEN "PortNotOpenError"
    ELSE IF s.lost \/ l = "down" THEN "BoardDisconnectionError"
    ELSE "none"

\* the Transport after an exchange was attempted on it
AfterExchange(s, l) ==
    IF s.state = "open" /\ l = "down" THEN [s EXCEPT !.lost = TRUE] ELSE s

\* write(cmd) for each of cmds in turn: the first failure ends the operation
WriteAll(s, l, cmds) ==
    IF TransportError(s, l) = "none"
    THEN [trace |-> Writes(cmds), raised |-> "none"]
    ELSE [trace |-> <<>>, raised |-> TransportError(s, l)]

----------------------------------------------------------------------------
(* Commands, as the drivers format them *)

OutSetCmd(n, v) == "OUT:" \o ToString(n) \o ":SET:" \o ToString(v)
BrainSetCmd(v) == "*SYS:BRAIN:SET:" \o ToString(v)
MotSetCmd(n, v) == "MOT:" \o ToString(n) \o ":SET:" \o ToString(v)
MotDisableCmd(n) == "MOT:" \o ToString(n) \o ":DISABLE"
MotGetCmd_bare(n) == "MOT:" \o ToString(n) \o ":GET"
MotGetCmd(n) == "MOT:" \o ToString(n) \o ":GET?"
NoteCmd(f, ms) == "NOTE:" \o ToString(f) \o ":" \o ToString(ms)

\* f'{bool(value):d}'
BoolD(value) == IF value THEN 1 ELSE 0

----------------------------------------------------------------------------
(* The firmware of the attached board, as the protocol describes it *)

PowerOn ==
    [outputs |-> [n \in 0..(NumOutputs - 1) |-> TRUE],
     note    |-> FALSE,
     motors  |-> [n \in 0..(NumMotors - 1) |-> [enabled |-> FALSE, value |-> 0]]]

\* MOT:<n>:SET:<v> |-> <<n, v>>, for every channel and setpoint
RECURSIVE MotSetDecodeRange(_, _, _)
MotSetDecodeRange(n, lo, hi) ==
    IF lo = hi THEN MotSetCmd(n, lo) :> <<n, lo>>
    ELSE LET mid == (lo + hi) \div 2
         IN  MotSetDecodeRange(n, lo, mid) @@ MotSetDecodeRange(n, mid + 1, hi)
MotSetDecode == MotSetDecodeRange(0, -1000, 1000) @@ MotSetDecodeRange(1, -1000, 1000)

MotDisableTable == {<<MotDisableCmd(n), n>> : n \in 0..(NumMotors - 1)}
OutSetTable ==
    {<<OutSetCmd(p[1], p[2]), p[1], p[2]>> : p \in (0..(NumOutputs - 1)) \X (0..1)}

\* the power board: *RESET turns every output off, re-enables the brain output
\* and stops the tone; OUT:4:SET is refused (NACK); *SYS:BRAIN:SET overrides
FwPower(f, cmd) ==
    IF cmd = "*RESET"
    THEN [f EXCEPT !.outputs = [n \in 0..(NumOutputs - 1) |-> n = BRAIN_OUTPUT],
                   !.note = FALSE]
    ELSE IF cmd \in {BrainSetCmd(0), BrainSetCmd(1)}
    THEN [f EXCEPT !.outputs[BRAIN_OUTPUT] = (cmd = BrainSetCmd(1))]
    ELSE IF \E t \in OutSetTable : t[1] = cmd
    THEN LET t == CHOOSE t \in OutSetTable : t[1] = cmd
         IN  IF t[2] = BRAIN_OUTPUT THEN f
             ELSE [f EXCEPT !.outputs[t[2]] = (t[3] = 1)]
    ELSE [f EXCEPT !.note = TRUE]     \* NOTE:<freq>:<ms>

\* the motor board: SET stores the setpoint and enables the channel, DISABLE
\* disables it (the stored value stays), *RESET disables every channel
FwMotor(f, cmd) ==
    IF cmd = "*RESET"
    THEN [f EXCEPT !.motors = [n \in 0..(NumMotors - 1) |->
                                  [enabled |-> FALSE, value |-> 0]]]
    ELSE IF \E t \in MotDisableTable : t[1] = cmd
    THEN LET t == CHOOSE t \in MotDisableTable : t[1] = cmd
         IN  [f EXCEPT !.motors[t[2]].enabled = FALSE]
    ELSE LET t == MotSetDecode[cmd]
         IN  [f EXCEPT !.motors[t[1]] = [enabled |-> TRUE, value |-> t[2]]]

FwWrite(b, f, cmd) ==
    CASE b = "PBv4B" -> FwPower(f, cmd)
      [] b = "MCv4B" -> FwMotor(f, cmd)
      [] OTHER       -> f

RECURSIVE FwApply(_, _, _)
FwApply(b, f, cmds) ==
    IF cmds = <<>> THEN f
    ELSE FwApply(b, FwWrite(b, f, Head(cmds).cmd), Tail(cmds))

\* the response line to MOT:<n>:GET?, as its fields: <enabled>:<value>
FwMotGet(f, n) ==
    <<ToString(BoolD(f.motors[n].enabled)), ToString(f.motors[n].value)>>

----------------------------------------------------------------------------
(* Driver construction and identity *)

\* identify(): BoardIdentity(*response.split(':')); more than four positional
\* fields is a TypeError of the NamedTuple constructor
identify(line) ==
    IF Len(line) > 4
    THEN [raised |-> "TypeError", identity |-> BoardIdentity(<<>>)]
    ELSE [raised |-> "none", identity |-> BoardIdentity(line)]

\* a constructor that would stop its Transport before the error goes up
Rejected_closing(t, error) ==
    [trace |-> Append(t, Ev("stop", "")), raised |-> error, set_identity |-> FALSE,
     identity |-> BoardIdentity(<<>>), registered |-> FALSE]

\* what a constructor that raised leaves behind
Rejected(t, error) ==
    [trace |-> t, raised |-> error, set_identity |-> FALSE,
     identity |-> BoardIdentity(<<>>), registered |-> FALSE]

Asked == <<Ev("open", ""), Ev("query", "*IDN?")>>

MotorBoard_init(line) ==
    LET id == identify(line)
    IN  IF id.raised # "none" THEN Rejected(Asked, id.raised)
        ELSE IF id.identity.board_type # "MCv4B"
        THEN Rejected(Append(Asked, Ev("assert", id.identity.board_type)),
                      "AssertionError")
        ELSE [trace |-> Asked \o <<Ev("assert", id.identity.board_type),
                                   Ev("set_identity", "")>>,
              raised |-> "none", set_identity |-> TRUE,
              identity |-> id.identity, registered |-> FALSE]

\* a constructor that registers its cleanup hook before the identity check
PowerBoard_init_early_hook(line) ==
    LET id == identify(line)
        hooked == <<Ev("open", ""), Ev("atexit.register", ""), Ev("query", "*IDN?")>>
    IN  IF id.raised # "none"
        THEN [Rejected(hooked, id.raised) EXCEPT !.registered = TRUE]
        ELSE IF id.identity.board_type # "PBv4B"
        THEN [Rejected(Append(hooked, Ev("assert", id.identity.board_type)),
                       "AssertionError") EXCEPT !.registered = TRUE]
        ELSE [trace |-> hooked \o <<Ev("assert", id.identity.board_type),
                                    Ev("set_identity", "")>>,
              raised |-> "none", set_identity |-> TRUE,
              identity |-> id.identity, registered |-> TRUE]

PowerBoard_init(line) ==
    LET id == identify(line)
    IN  IF id.raised # "none" THEN Rejected(Asked, id.raised)
        ELSE IF id.identity.board_type # "PBv4B"
        THEN Rejected(Append(Asked, Ev("assert", id.identity.board_type)),
                      "AssertionError")
        ELSE [trace |-> Asked \o <<Ev("assert", id.identity.board_type),
                                   Ev("set_identity", ""),
                                   Ev("atexit.register", "")>>,
              raised |-> "none", set_identity |-> TRUE,
              identity |-> id.identity, registered |-> TRUE]

\* a constructor that pushes the identity into the Transport before checking it
ServoBoard_init_early_identity(line) ==
    LET id == identify(line)
    IN  IF id.raised # "none" THEN Rejected(Asked, id.raised)
        ELSE IF id.identity.board_type # "SBv4B"
        THEN [trace |-> Asked \o <<Ev("set_identity", ""),
                                   Ev("assert", id.identity.board_type)>>,
              raised |-> "AssertionError", set_identity |-> TRUE,
              identity |-> id.identity, registered |-> FALSE]
        ELSE [trace |-> Asked \o <<Ev("set_identity", ""),
                                   Ev("assert", id.identity.board_type),
                                   Ev("atexit.register", "")>>,
              raised |-> "none", set_identity |-> TRUE,
              identity |-> id.identity, registered |-> TRUE]

ServoBoard_init(line) ==
    LET id == identify(line)
    IN  IF id.raised # "none" THEN Rejected(Asked, id.raised)
        ELSE IF id.identity.board_type # "SBv4B"
        THEN Rejected(Append(Asked, Ev("assert", id.identity.board_type)),
                      "AssertionError")
        ELSE [trace |-> Asked \o <<Ev("assert", id.identity.board_type),
                                   Ev("set_identity", ""),
                                   Ev("atexit.register", "")>>,
              raised |-> "none", set_identity |-> TRUE,
              identity |-> id.identity, registered |-> TRUE]

ExpectedType(f) ==
    CASE f = "Motor" -> "MCv4B"
      [] f = "Power" -> "PBv4B"
      [] f = "Servo" -> "SBv4B"

----------------------------------------------------------------------------
(* Driver operations: the commands each sends, in order *)

\* PowerBoard.reset: *RESET, then the brain output is turned off by hand
PowerBoard_reset_only == <<"*RESET">>
PowerBoard_reset_brain_first == <<"*SYS:BRAIN:SET:0", "*RESET">>
PowerBoard_reset == <<"*RESET", "*SYS:BRAIN:SET:0">>

MotorBoard_reset == <<"*RESET">>
ServoBoard_reset == <<"*RESET">>

Output_enable_plain(index, value) == <<OutSetCmd(index, BoolD(value))>>

Output_enable(index, value) ==
    IF index = BRAIN_OUTPUT
    THEN <<BrainSetCmd(BoolD(value))>>
    ELSE <<OutSetCmd(index, BoolD(value))>>

\* Piezo.buzz: int(frequency), int(duration * 1000); duration * 1000 / Unit is
\* taken as duration / (Unit / 1000) to stay inside 32-bit integers
Piezo_buzz(frequency, duration) ==
    <<NoteCmd(TruncDiv(frequency, Unit), TruncDiv(duration, Unit \div 1000))>>

Motor_set_power_brake_disables(index, value) ==
    IF value = COAST * Unit \/ value = BRAKE * Unit
    THEN <<MotDisableCmd(index)>>
    ELSE <<MotSetCmd(index, map_to_int(value, -Unit, Unit, -1000, 1000))>>

Motor_set_power(index, value) ==
    IF value = COAST * Unit
    THEN <<MotDisableCmd(index)>>
    ELSE <<MotSetCmd(index, map_to_int(value, -Unit, Unit, -1000, 1000))>>

\* Motor.get_power on the fields of the response
Motor_get_power_by_value(data) ==
    LET value == ParseInt(data[2])
    IN  IF value = 0 THEN COAST * Unit
        ELSE map_to_float(value, -1000, 1000, -Unit, Unit, 3)

Motor_get_power(data) ==
    LET enabled == (data[1] = "1")
        value   == ParseInt(data[2])
    IN  IF ~enabled THEN COAST * Unit
        ELSE map_to_float(value, -1000, 1000, -Unit, Unit, 3)

\* _cleanup: try: self.reset() / except Exception: logger.warning(...)
PowerBoard_cleanup_unguarded(s, l) == WriteAll(s, l, PowerBoard_reset)

PowerBoard_cleanup(s, l) ==
    LET r == WriteAll(s, l, PowerBoard_reset)
    IN  IF r.raised # "none"
        THEN [trace |-> Append(r.trace, Ev("logger.warning", r.raised)),
              raised |-> "none"]
        ELSE r

ServoBoard_cleanup(s, l) ==
    LET r == WriteAll(s, l, ServoBoard_reset)
    IN  IF r.raised # "none"
        THEN [trace |-> Append(r.trace, Ev("logger.warning", r.raised)),
              raised |-> "none"]
        ELSE r

----------------------------------------------------------------------------
(* Inputs *)

\* the identity lines a board of type b may answer *IDN? with: the protocol's
\* four fields, a line with fields missing and a line with a field added
IdnReplies(b) ==
    {<<"Student Robotics", b, "sr0AB1", "4.4.1">>,
     <<"Student Robotics">>,
     <<"Student Robotics", b, "sr0AB1", "4.4.1", "extra">>}

\* the identity discovery builds from the USB descriptor, and the default
InitialIdentities ==
    {BoardIdentity(<<"usb-manufacturer", "usb-product", "usb-serial">>),
     BoardIdentity(<<>>)}

\* floats handed to set_power: the dyadic grid around zero, both endpoints,
\* BRAKE (0) and COAST
PowerInputs ==
    {i * (Unit \div PowerDen) : i \in (-MaxPowerNum)..MaxPowerNum}
        \cup {-Unit, Unit, BRAKE * Unit, COAST * Unit}

\* (frequency, duration) pairs handed to Piezo.buzz
BuzzInputs == {<<1000 * Unit, Unit \div 2>>, <<Unit \div 2, 1000 * Unit>>}

NoOp(name) == [name |-> name, ch |-> -1, arg |-> 0]
NoHistory == [n \in 0..(NumMotors - 1) |-> [valid |-> FALSE, v |-> 0]]

----------------------------------------------------------------------------
(* The state machine *)

Init ==
    /\ proc = "running"
    /\ link = "up"
    /\ board \in BoardTypes
    /\ idn \in IdnReplies(board)
    /\ fw = PowerOn
    /\ family = "none"
    /\ drv = "none"
    /\ serial = [state |-> "unopened", identity |-> BoardIdentity(<<>>), lost |-> FALSE]
    /\ hooks = <<>>
    /\ op = NoOp("start")
    /\ trace = <<>>
    /\ raised = "none"
    /\ ret = 0
    /\ lastSet = NoHistory

DriverInit(f, line) ==
    CASE f = "Motor" -> MotorBoard_init(line)
      [] f = "Power" -> PowerBoard_init(line)
      [] f = "Servo" -> ServoBoard_init(line)

\* MotorBoard(port, identity) / PowerBoard(...) / ServoBoard(...)
Construct(f, initial_identity) ==
    /\ proc = "running" /\ drv = "none" /\ link = "up"
    /\ LET r == DriverInit(f, idn)
           s == SerialWrapper(initial_identity)
       IN  /\ family' = f
           /\ drv' = IF r.raised = "none" THEN "ready" ELSE "failed"
           /\ serial' = IF r.set_identity THEN [s EXCEPT !.identity = r.identity] ELSE s
           /\ hooks' = IF r.registered THEN Append(hooks, f) ELSE hooks
           /\ trace' = r.trace
           /\ raised' = r.raised
    /\ op' = NoOp("construct")
    /\ ret' = 0
    /\ UNCHANGED <<proc, link, board, idn, fw, lastSet>>

\* an operation that only writes cmds through the driver's Transport
Send(o, cmds) ==
    LET r == WriteAll(serial, link, cmds)
    IN  /\ trace' = r.trace
        /\ raised' = r.raised
        /\ fw' = FwApply(board, fw, Commands(r.trace))
        /\ serial' = AfterExchange(serial, link)
        /\ op' = o
        /\ ret' = 0
        /\ UNCHANGED <<proc, link, board, idn, family, drv, hooks>>

Ready == proc = "running" /\ drv = "ready"

\* board.reset()
Reset ==
    /\ Ready
    /\ Send(NoOp("reset"),
            CASE family = "Power" -> PowerBoard_reset
              [] family = "Motor" -> MotorBoard_reset
              [] family = "Servo" -> ServoBoard_reset)
    /\ lastSet' = IF raised' = "none" THEN NoHistory ELSE lastSet

\* board.outputs[n].enable(value)
Enable(n, value) ==
    /\ Ready /\ family = "Power"
    /\ Send([name |-> "enable", ch |-> n, arg |-> BoolD(value)], Output_enable(n, value))
    /\ UNCHANGED lastSet

\* board.piezo.buzz(frequency, duration)
Buzz(frequency, duration) ==
    /\ Ready /\ family = "Power"
    /\ Send(NoOp("buzz"), Piezo_buzz(frequency, duration))
    /\ UNCHANGED lastSet

\* board.motors[n].set_power(value)
SetPower(n, value) ==
    /\ Ready /\ family = "Motor"
    /\ Send([name |-> "set_power", ch |-> n, arg |-> value], Motor_set_power(n, value))
    /\ lastSet' = IF raised' = "none"
                  THEN [lastSet EXCEPT ![n] = [valid |-> TRUE, v |-> value]]
                  ELSE lastSet

\* board.motors[n].get_power()
GetPower(n) ==
    /\ Ready /\ family = "Motor"
    /\ LET error == TransportError(serial, link)
       IN  /\ raised' = error
           /\ trace' = IF error = "none" THEN <<Ev("query", MotGetCmd(n))>> ELSE <<>>
           /\ ret' = IF error = "none" THEN Motor_get_power(FwMotGet(fw, n)) ELSE 0
    /\ serial' = AfterExchange(serial, link)
    /\ op' = [name |-> "get_power", ch |-> n, arg |-> 0]
    /\ UNCHANGED <<proc, link, board, idn, fw, family, drv, hooks, lastSet>>

\* MotorBoard.close(): self._serial.stop()
MotorBoard_close ==
    /\ Ready /\ family = "Motor"
    /\ serial' = [serial EXCEPT !.state = "closed"]
    /\ op' = NoOp("close")
    /\ trace' = <<Ev("stop", "")>>
    /\ raised' = "none"
    /\ ret' = 0
    /\ UNCHANGED <<proc, link, board, idn, fw, family, drv, hooks, lastSet>>

\* the Transport of a power or servo driver is closed (SerialWrapper.stop())
Transport_close ==
    /\ Ready /\ family \in {"Power", "Servo"}
    /\ serial' = [serial EXCEPT !.state = "closed"]
    /\ op' = NoOp("close")
    /\ trace' = <<Ev("stop", "")>>
    /\ raised' = "none"
    /\ ret' = 0
    /\ UNCHANGED <<proc, link, board, idn, fw, family, drv, hooks, lastSet>>

\* the board is unplugged, or browns out and drops off the bus
Unplug ==
    /\ proc = "running" /\ link = "up"
    /\ link' = "down"
    /\ UNCHANGED <<proc, board, idn, fw, family, drv, serial, hooks, op, trace,
                   raised, ret, lastSet>>

Cleanup(f, s, l) ==
    CASE f = "Power" -> PowerBoard_cleanup(s, l)
      [] f = "Servo" -> ServoBoard_cleanup(s, l)

\* the interpreter exits and atexit runs the registered hooks
ProcessExit ==
    /\ proc = "running"
    /\ proc' = "exited"
    /\ LET r == IF hooks = <<>> THEN [trace |-> <<>>, raised |-> "none"]
                ELSE Cleanup(hooks[1], serial, link)
       IN  /\ trace' = r.trace
           /\ raised' = r.raised
           /\ fw' = FwApply(board, fw, Commands(r.trace))
    /\ serial' = IF hooks = <<>> THEN serial ELSE AfterExchange(serial, link)
    /\ op' = NoOp("exit")
    /\ ret' = 0
    /\ UNCHANGED <<link, board, idn, family, drv, hooks, lastSet>>

Next ==
    \/ \E f \in Families, i \in InitialIdentities : Construct(f, i)
    \/ Reset
    \/ \E n \in 0..(NumOutputs - 1), value \in BOOLEAN : Enable(n, value)
    \/ \E b \in BuzzInputs : Buzz(b[1], b[2])
    \/ \E n \in 0..(NumMotors - 1), value \in PowerInputs : SetPower(n, value)
    \/ \E n \in 0..(NumMotors - 1) : GetPower(n)
    \/ MotorBoard_close
    \/ Transport_close
    \/ Unplug
    \/ ProcessExit

Spec == Init /\ [][Next]_vars

----------------------------------------------------------------------------
(* Properties *)

HasEvent(t, kind) == \E i \in 1..Len(t) : t[i].kind = kind
Wrote(t, cmd) == \E i \in 1..Len(t) : t[i] = Ev("write", cmd)

\* the Transport carries commands to a responsive board
Responsive == TransportError(serial, link) = "none"

\* the constructor got an identity whose board_type is not the family's code
Mismatched ==
    /\ drv # "none"
    /\ Len(idn) <= 4
    /\ BoardIdentity(idn).board_type # ExpectedType(family)

\* C1: for each driver, when the board_type of the *IDN? response differs from
\* the family's code, construction fails with AssertionError (TypeMismatch),
\* no cleanup hook is registered and set_identity is not called: the
\* Transport keeps the identity it was opened with.
C1_MismatchFailsFast ==
    Mismatched =>
        /\ drv = "failed"
        /\ hooks = <<>>
        /\ serial.identity \in InitialIdentities
        /\ serial.identity # BoardIdentity(idn)
        /\ op.name = "construct" =>
              /\ raised = "AssertionError"
              /\ ~HasEvent(trace, "set_identity")
              /\ ~HasEvent(trace, "atexit.register")

C1_Witness ==
    /\ Mismatched
    /\ op.name = "construct"
    /\ family = "Power"
    /\ board = "MCv4B"
    /\ Len(idn) = 4
    /\ raised = "AssertionError"

\* position of the board_type check in a constructor's trace, or one past its
\* end when the constructor never reached the check
CheckIndex(t) ==
    IF HasEvent(t, "assert")
    THEN CHOOSE i \in 1..Len(t) :
            /\ t[i].kind = "assert"
            /\ \A j \in 1..(i - 1) : t[j].kind # "assert"
    ELSE Len(t) + 1

\* C2: during construction *IDN? is the first command sent, and up to the
\* board_type check it is the only command sent and set_identity is not called.
C2_IdentifyBeforeAnythingElse ==
    op.name = "construct" =>
        LET before == SubSeq(trace, 1, CheckIndex(trace) - 1)
        IN  /\ Commands(before) = <<Ev("query", "*IDN?")>>
            /\ Commands(trace)[1] = Ev("query", "*IDN?")
            /\ ~HasEvent(before, "set_identity")

C2_Witness ==
    /\ op.name = "construct"
    /\ family = "Servo"
    /\ raised = "none"
    /\ HasEvent(trace, "assert")
    /\ HasEvent(trace, "set_identity")
    /\ serial.identity = BoardIdentity(idn)

\* C3: every driver family registers a cleanup routine on successful
\* construction, so a de-energizing reset is issued to the board of every
\* successfully constructed driver when the process ends.
C3_EveryDriverRegistersCleanup ==
    /\ drv = "ready" => hooks = <<family>>
    /\ (op.name = "exit" /\ drv = "ready" /\ Responsive) => Wrote(trace, "*RESET")

\* C4: a driver's cleanup routine returns normally in every state of its
\* Transport, also after a disconnection and after the Transport was closed;
\* a failure of the reset it attempts is logged, not propagated.
C4_CleanupNeverRaises ==
    (op.name = "exit" /\ hooks # <<>>) =>
        /\ raised = "none"
        /\ ~Responsive =>
              trace = <<Ev("logger.warning", TransportError(serial, link))>>

C4_Witness ==
    /\ op.name = "exit"
    /\ hooks = <<"Power">>
    /\ link = "down"
    /\ raised = "none"
    /\ HasEvent(trace, "logger.warning")

\* the power board's cleanup has run against a responsive board
PowerCleanupRan ==
    /\ op.name = "exit"
    /\ hooks = <<"Power">>
    /\ Responsive

C6_BrainOutputRouted ==
    (op.name = "enable" /\ raised = "none") =>
        /\ Len(trace) = 1
        /\ trace[1].kind = "write"
        /\ trace[1].cmd \notin {"OUT:4:SET:0", "OUT:4:SET:1"}
        /\ trace[1].cmd =
              IF op.ch = 4
              THEN "*SYS:BRAIN:SET:" \o ToString(op.arg)
              ELSE "OUT:" \o ToString(op.ch) \o ":SET:" \o ToString(op.arg)

C6_Witness ==
    /\ op = [name |-> "enable", ch |-> 4, arg |-> 0]
    /\ raised = "none"
    /\ trace = <<Ev("write", "*SYS:BRAIN:SET:0")>>

ReadBack(v) ==
    /\ op.name = "get_power"
    /\ raised = "none"
    /\ lastSet[op.ch] = [valid |-> TRUE, v |-> v]

\* C8: for every v in [-1.0, 1.0], get_power() after set_power(v) on the same
\* channel returns round(v, 3).
C8_PowerRoundTrip ==
    \A v \in PowerInputs :
        (ReadBack(v) /\ -Unit <= v /\ v <= Unit) => ret = PyRound(v, 3)

\* C9: set_power(COAST) sends MOT:<n>:DISABLE and no SET command, a following
\* get_power() returns COAST, and get_power() returns COAST exactly when the
\* firmware reports the channel as not enabled, whatever the value field.
C9_CoastRoundTrip ==
    /\ (op.name = "set_power" /\ op.arg = COAST * Unit /\ raised = "none") =>
          trace = <<Ev("write", "MOT:" \o ToString(op.ch) \o ":DISABLE")>>
    /\ ReadBack(COAST * Unit) => ret = COAST * Unit
    /\ (op.name = "get_power" /\ raised = "none") =>
          ((ret = COAST * Unit) <=> ~fw.motors[op.ch].enabled)

C9_Witness ==
    /\ ReadBack(COAST * Unit)
    /\ fw.motors[op.ch].value # 0
    /\ ret = COAST * Unit

\* C10: set_power(BRAKE) sends MOT:<n>:SET:0 and never MOT:<n>:DISABLE, and a
\* following get_power() returns 0 (BRAKE), not COAST: the channel stays
\* enabled.
C10_BrakeKeepsEnabled ==
    /\ (op.name = "set_power" /\ op.arg = BRAKE * Unit /\ raised = "none") =>
          trace = <<Ev("write", "MOT:" \o ToString(op.ch) \o ":SET:0")>>
    /\ ReadBack(BRAKE * Unit) =>
          /\ ret = 0
          /\ ret # COAST * Unit
          /\ fw.motors[op.ch].enabled

C10_Witness ==
    /\ ReadBack(BRAKE * Unit)
    /\ ret = BRAKE * Unit
    /\ fw.motors[op.ch].enabled

----------------------------------------------------------------------------
(* The numeric codec on its own: the initial states are the calls of       *)
(* map_to_int and map_to_float with ranges and values drawn from small     *)
(* sets.  op holds the arguments of the call, ret its result and raised    *)
(* its exception; the driver state is not involved and stays as it starts. *)

\* (in_min, in_max) of map_to_int, floats in 1/Unit: the drivers' -1.0..1.0,
\* the same range reversed, a range whose ends are not whole numbers
\* (-0.5..1.5) and an empty range.  No affine image of these ranges is a
\* decimal tie at three decimals, which binary64 could not represent.
FloatRanges ==
    {<<-Unit, Unit>>, <<Unit, -Unit>>, <<-(Unit \div 2), 3 * (Unit \div 2)>>,
     <<Unit, Unit>>}

\* (out_min, out_max) of map_to_int: motor power, the servo's start window
\* (START_DUTY_MIN, START_DUTY_MAX), its widest window (DUTY_MIN, DUTY_MAX),
\* a coarse range in both directions and an empty range
WireRanges ==
    {<<-1000, 1000>>, <<1000, 2000>>, <<500, 4000>>, <<0, 3>>, <<3, 0>>, <<5, 5>>}

Precisions == 0..3

\* the values of x tried inside a float range: GridSteps equal steps from in_min
\* to in_max, ends included
GridSteps == 4 * PowerDen
FloatGrid(in_min, in_max) ==
    {in_min + i * ((in_max - in_min) \div GridSteps) : i \in 0..GridSteps}

\* the wire values tried inside a wire range: both ends and the middle
WireGrid(in_min, in_max) == {in_min, in_max, (in_min + in_max) \div 2}

CodecArgs(name, x, in_min, in_max, out_min, out_max, precision) ==
    [name |-> name, x |-> x, in_min |-> in_min, in_max |-> in_max,
     out_min |-> out_min, out_max |-> out_max, precision |-> precision]

\* the calls tried: op.name is "call map_to_int" or "call map_to_float" until
\* the call is made
CodecCalls ==
    UNION {{CodecArgs("call map_to_int", x, f[1], f[2], w[1], w[2], 0) :
                x \in FloatGrid(f[1], f[2])} : f \in FloatRanges, w \in WireRanges}
    \cup
    UNION {{CodecArgs("call map_to_float", x, w[1], w[2], f[1], f[2], precision) :
                x \in WireGrid(w[1], w[2]), precision \in Precisions} :
            w \in WireRanges, f \in FloatRanges}

CodecInit ==
    /\ proc = "running"
    /\ link = "up"
    /\ board = "MCv4B"
    /\ idn = <<>>
    /\ fw = PowerOn
    /\ family = "none"
    /\ drv = "none"
    /\ serial = [state |-> "unopened", identity |-> BoardIdentity(<<>>), lost |-> FALSE]
    /\ hooks = <<>>
    /\ op \in CodecCalls
    /\ trace = <<>>
    /\ raised = "none"
    /\ ret = 0
    /\ lastSet = NoHistory

\* map_to_int(x, in_min, in_max, out_min, out_max); the float division by an
\* empty input range raises ZeroDivisionError
Call_map_to_int ==
    /\ op.name = "call map_to_int"
    /\ op' = [op EXCEPT !.name = "map_to_int"]
    /\ raised' = IF op.in_max = op.in_min THEN "ZeroDivisionError" ELSE "none"
    /\ ret' = IF op.in_max = op.in_min THEN 0
              ELSE map_to_int(op.x, op.in_min, op.in_max, op.out_min, op.out_max)
    /\ UNCHANGED <<proc, link, board, idn, fw, family, drv, serial, hooks,
                   trace, lastSet>>

\* map_to_float(x, in_min, in_max, out_min, out_max, precision)
Call_map_to_float ==
    /\ op.name = "call map_to_float"
    /\ op' = [op EXCEPT !.name = "map_to_float"]
    /\ raised' = IF op.in_max = op.in_min THEN "ZeroDivisionError" ELSE "none"
    /\ ret' = IF op.in_max = op.in_min THEN 0
              ELSE map_to_float(op.x, op.in_min, op.in_max, op.out_min, op.out_max,
                                op.precision)
    /\ UNCHANGED <<proc, link, board, idn, fw, family, drv, serial, hooks,
                   trace, lastSet>>

\* the integer map_to_int just produced is read back through map_to_float
\* with the ranges exchanged and precision=3, as get_position does with the
\* setpoint of set_position and get_power with the setpoint of set_power;
\* op.x stays the float that was written
ReadBackWire ==
    /\ op.name = "map_to_int" /\ raised = "none"
    /\ op.out_min # op.out_max
    /\ op' = [op EXCEPT !.name = "read_back", !.precision = 3]
    /\ raised' = "none"
    /\ ret' = map_to_float(ret, op.out_min, op.out_max, op.in_min, op.in_max, 3)
    /\ UNCHANGED <<proc, link, board, idn, fw, family, drv, serial, hooks,
                   trace, lastSet>>

CodecNext ==
    \/ Call_map_to_int
    \/ Call_map_to_float
    \/ ReadBackWire

CodecSpec == CodecInit /\ [][CodecNext]_vars

----------------------------------------------------------------------------
(* Properties of the codec, checked under CodecSpec *)

\* name was called with a range that is not empty
CodecCalled(name) == op.name = name /\ op.in_min # op.in_max

\* C11: for any ranges and any precision, map_to_int maps in_min to exactly
\* out_min and in_max to exactly out_max, and map_to_float maps the wire
\* endpoints to exactly the float endpoints, without raising.
C11_BoundaryExact ==
    (CodecCalled("map_to_int") \/ CodecCalled("map_to_float")) =>
        /\ raised = "none"
        /\ op.x = op.in_min => ret = op.out_min
        /\ op.x = op.in_max => ret = op.out_max

\* the affine image of the last map_to_int call is ImageNum / ImageDen, with
\* ImageDen > 0
ImageDen == Abs(op.in_max - op.in_min)
ImageNum ==
    LET n == (op.x - op.in_min) * (op.out_max - op.out_min)
                 + op.out_min * (op.in_max - op.in_min)
    IN  IF op.in_max < op.in_min THEN -n ELSE n

C13_RoundTripLossBelowStep ==
    op.name = "read_back" =>
        Abs(ret - op.x) * Abs(op.out_max - op.out_min) < Abs(op.in_max - op.in_min)

----------------------------------------------------------------------------
(* Decoding of response lines.  Here a response is the string the          *)
(* Transport returns, and split(':') is computed.                          *)

\* s.split(sep) for a one-character sep: the pieces of s between the
\* occurrences of sep, empty pieces included; from is where the current
\* piece starts and i the character being looked at
RECURSIVE SplitFrom(_, _, _, _)
SplitFrom(s, sep, from, i) ==
    IF i > Len(s) THEN <<SubSeq(s, from, Len(s))>>
    ELSE IF SubSeq(s, i, i) = sep
    THEN <<SubSeq(s, from, i - 1)>> \o SplitFrom(s, sep, i + 1, i + 1)
    ELSE SplitFrom(s, sep, from, i + 1)

Split(s, sep) == SplitFrom(s, sep, 1, 1)

\* sep.join(pieces)
RECURSIVE Join(_, _)
Join(pieces, sep) ==
    IF Len(pieces) = 0 THEN ""
    ELSE IF Len(pieces) = 1 THEN pieces[1]
    ELSE pieces[1] \o sep \o Join(Tail(pieces), sep)

Digits == "0123456789"
IsDigit(c) == \E d \in 0..9 : SubSeq(Digits, d + 1, d + 1) = c
DigitValue(c) == CHOOSE d \in 0..9 : SubSeq(Digits, d + 1, d + 1) = c

\* the value of the first n characters of a string of digits
RECURSIVE DigitsValue(_, _)
DigitsValue(s, n) ==
    IF n = 0 THEN 0
    ELSE 10 * DigitsValue(s, n - 1) + DigitValue(SubSeq(s, n, n))

\* int(s) of a token: an optional sign and one or more digits; any other
\* token the model tries is one int() refuses with ValueError
PyInt(s) ==
    LET signed == Len(s) >= 1 /\ SubSeq(s, 1, 1) \in {"-", "+"}
        body   == IF signed THEN SubSeq(s, 2, Len(s)) ELSE s
    IN  IF Len(body) = 0 \/ \E i \in 1..Len(body) : ~IsDigit(SubSeq(body, i, i))
        THEN [raised |-> "ValueError", value |-> 0]
        ELSE [raised |-> "none",
              value  |-> IF signed /\ SubSeq(s, 1, 1) = "-"
                         THEN -DigitsValue(body, Len(body))
                         ELSE DigitsValue(body, Len(body))]

\* float(s) / 1000 of a token of digits, as a float in 1/Unit
PyFloatMilli(s) ==
    LET i == PyInt(s)
    IN  [raised |-> i.raised, value |-> i.value * (Unit \div 1000)]

\* tuple((x == '1') for x in flags.split(','))
FlagGroup(flags) ==
    LET tokens == Split(flags, ",")
    IN  [i \in 1..Len(tokens) |-> tokens[i] = "1"]

\* what a decoder that raised returns: no record
NoStatus == [failed |-> TRUE]
DecodeFailed(error) == [raised |-> error, status |-> NoStatus]

\* PowerStatus.from_status_response: unpacking fewer than four pieces is a
\* ValueError, as are int(temp) and float(raw_voltage) of a malformed token
PowerStatus_from_status_response(response) ==
    LET fields == Split(response, ":")
    IN  IF Len(fields) < 4 THEN DecodeFailed("ValueError")
        ELSE LET temp    == PyInt(fields[2])
                 voltage == PyFloatMilli(fields[4])
             IN  IF temp.raised # "none" THEN DecodeFailed(temp.raised)
                 ELSE IF voltage.raised # "none" THEN DecodeFailed(voltage.raised)
                 ELSE [raised |-> "none",
                       status |-> [overcurrent       |-> FlagGroup(fields[1]),
                                   temperature       |-> temp.value,
                                   fan_running       |-> fields[3] = "1",
                                   regulator_voltage |-> voltage.value,
                                   other |-> SubSeq(fields, 5, Len(fields))]]

\* a decoder that fills a missing input voltage with 0.0
MotorStatus_defaulting(response) ==
    LET fields  == Split(response, ":")
        voltage == IF Len(fields) < 2 THEN [raised |-> "none", value |-> 0]
                   ELSE PyFloatMilli(fields[2])
    IN  IF voltage.raised # "none" THEN DecodeFailed(voltage.raised)
        ELSE [raised |-> "none",
              status |-> [output_faults |-> FlagGroup(fields[1]),
                          input_voltage |-> voltage.value,
                          other |-> SubSeq(fields, 3, Len(fields))]]

\* MotorStatus.from_status_response
MotorStatus_from_status_response(response) ==
    LET fields == Split(response, ":")
    IN  IF Len(fields) < 2 THEN DecodeFailed("ValueError")
        ELSE LET voltage == PyFloatMilli(fields[2])
             IN  IF voltage.raised # "none" THEN DecodeFailed(voltage.raised)
                 ELSE [raised |-> "none",
                       status |-> [output_faults |-> FlagGroup(fields[1]),
                                   input_voltage |-> voltage.value,
                                   other |-> SubSeq(fields, 3, Len(fields))]]

\* ServoStatus.from_status_response: data[1] of a one-piece list is an
\* IndexError; the record has the two flags and nothing else
ServoStatus_from_status_response(response) ==
    LET data == Split(response, ":")
    IN  IF Len(data) < 2 THEN DecodeFailed("IndexError")
        ELSE [raised |-> "none",
              status |-> [watchdog_failed |-> data[1] = "1",
                          power_good      |-> data[2] = "1"]]

\* Output.is_enabled: response == '1'
Output_is_enabled(response) ==
    [raised |-> "none", status |-> [value |-> response = "1"]]

\* PowerBoard.start_button: internal, external = response.split(':')
PowerBoard_start_button(response) ==
    LET fields == Split(response, ":")
    IN  IF Len(fields) # 2 THEN DecodeFailed("ValueError")
        ELSE [raised |-> "none",
              status |-> [value |-> fields[1] = "1" \/ fields[2] = "1"]]

----------------------------------------------------------------------------
(* The decoders on their own: the initial states are the calls of a query  *)
(* method against a board whose response line is drawn from a set of       *)
(* well-formed, extended, truncated and malformed lines.  op holds the     *)
(* method, the line and the pieces the line was put together from; ret     *)
(* holds the decoded record.                                               *)

\* the number of fields of each family's fixed status layout
FixedFields(name) ==
    CASE name = "PowerBoard.status" -> 4
      [] name = "MotorBoard.status" -> 2
      [] name = "ServoBoard.status" -> 2

\* <oc_flags, temp, fan_running, raw_voltage> of a power board
PowerFixed ==
    {<<oc, temp, fan, mv>> : oc \in {"1,0", "0,0,0,0,0,0,0", "1,x"},
                             temp \in {"245", "-5", "hot"},
                             fan \in {"1", "0", "2", ""},
                             mv \in {"11980", "0", ""}}

\* <output_faults, input_voltage_mv> of a motor board
MotorFixed ==
    {<<faults, mv>> : faults \in {"0,0", "0,1", "0,2"}, mv \in {"12000", "0", "", "x"}}

\* <watchdog_failed, power_good> of a servo board
ServoFixed == {<<wd, pg>> : wd \in {"0", "1", "2", ""}, pg \in {"0", "1", "2", ""}}

\* fields a later firmware may add after the fixed ones; the single empty
\* field is what a line ending in a colon carries
Extras == {<<>>, <<"">>, <<"7">>, <<"a", "b">>}

\* the fixed layouts, each with every extension and cut short to every length
StatusFields(fixed) ==
    {f \o e : f \in fixed, e \in Extras}
        \cup UNION {{SubSeq(f, 1, k) : k \in 1..(Len(f) - 1)} : f \in fixed}
        \cup {<<"">>}

GetReplies == {"1", "0", "", "2", "true"}
ButtonReplies == {"0:0", "1:0", "0:1", "2:0", "0:", "1", "0:0:0"}

\* the calls tried: op.name is "call" until the method named is called
StatusCall(method, fields) ==
    [name |-> "call", method |-> method, response |-> Join(fields, ":"),
     fields |-> fields]

StatusCalls ==
    {StatusCall("PowerBoard.status", f) : f \in StatusFields(PowerFixed)}
        \cup {StatusCall("MotorBoard.status", f) : f \in StatusFields(MotorFixed)}
        \cup {StatusCall("ServoBoard.status", f) : f \in StatusFields(ServoFixed)}
        \cup {StatusCall("Output.is_enabled", <<r>>) : r \in GetReplies}
        \cup {StatusCall("PowerBoard.start_button", Split(r, ":")) : r \in ButtonReplies}

StatusInit ==
    /\ proc = "running"
    /\ link = "up"
    /\ board \in BoardTypes
    /\ idn = <<>>
    /\ fw = PowerOn
    /\ family = "none"
    /\ drv = "none"
    /\ serial = [state |-> "unopened", identity |-> BoardIdentity(<<>>), lost |-> FALSE]
    /\ hooks = <<>>
    /\ op \in StatusCalls
    /\ trace = <<>>
    /\ raised = "none"
    /\ ret = 0
    /\ lastSet = NoHistory

\* a query method: the command is sent, the response decoded
Queried(method, cmd, decoded) ==
    /\ op.name = "call" /\ op.method = method
    /\ op' = [name |-> method, response |-> op.response, fields |-> op.fields]
    /\ trace' = <<Ev("query", cmd)>>
    /\ raised' = decoded.raised
    /\ ret' = decoded.status
    /\ UNCHANGED <<proc, link, board, idn, fw, family, drv, serial, hooks, lastSet>>

\* PowerBoard.status()
PowerBoard_status ==
    /\ board = "PBv4B"
    /\ Queried("PowerBoard.status", "*STATUS?",
               PowerStatus_from_status_response(op.response))

\* MotorBoard.status()
MotorBoard_status ==
    /\ board = "MCv4B"
    /\ Queried("MotorBoard.status", "*STATUS?",
               MotorStatus_from_status_response(op.response))

\* ServoBoard.status()
ServoBoard_status ==
    /\ board = "SBv4B"
    /\ Queried("ServoBoard.status", "*STATUS?",
               ServoStatus_from_status_response(op.response))

\* board.outputs[n].is_enabled()
IsEnabled(n) ==
    /\ board = "PBv4B"
    /\ Queried("Output.is_enabled", "OUT:" \o ToString(n) \o ":GET?",
               Output_is_enabled(op.response))

\* board.start_button()
StartButton ==
    /\ board = "PBv4B"
    /\ Queried("PowerBoard.start_button", "BTN:START:GET?",
               PowerBoard_start_button(op.response))

StatusNext ==
    \/ PowerBoard_status
    \/ MotorBoard_status
    \/ ServoBoard_status
    \/ \E n \in 0..(NumOutputs - 1) : IsEnabled(n)
    \/ StartButton

StatusSpec == StatusInit /\ [][StatusNext]_vars

----------------------------------------------------------------------------
(* Properties of the decoders, checked under StatusSpec *)

StatusCalled ==
    op.name \in {"PowerBoard.status", "MotorBoard.status", "ServoBoard.status"}

Decode(name, response) ==
    CASE name = "PowerBoard.status" -> PowerStatus_from_status_response(response)
      [] name = "MotorBoard.status" -> MotorStatus_from_status_response(response)
      [] name = "ServoBoard.status" -> ServoStatus_from_status_response(response)

\* what the family's decoder makes of the fixed leading fields of the last
\* line alone
FixedOnly ==
    Decode(op.name, Join(SubSeq(op.fields, 1, FixedFields(op.name)), ":"))

\* the last status line has fields beyond the family's layout, after fixed
\* fields that decode
Extended ==
    /\ StatusCalled
    /\ Len(op.fields) > FixedFields(op.name)
    /\ FixedOnly.raised = "none"

\* C14: for every family, decoding a status line with extra trailing fields
\* succeeds, decodes the fixed leading fields as it does without them, and
\* exposes exactly the extra fields, verbatim and in order, as `other`.
C14_ExtraFieldsExposed ==
    Extended =>
        /\ raised = "none"
        /\ "other" \in DOMAIN ret
        /\ ret.other = SubSeq(op.fields, FixedFields(op.name) + 1, Len(op.fields))
        /\ [ret EXCEPT !.other = <<>>] = FixedOnly.status

\* C15: the power status line 1,0:245:1:11980: (ending in a colon) decodes to
\* overcurrent (true, false), temperature 245, fan_running true,
\* regulator_voltage 11.980 and an empty `other`.
C15_ScenarioA ==
    (op.name = "PowerBoard.status" /\ op.response = "1,0:245:1:11980:") =>
        /\ raised = "none"
        /\ ret = [overcurrent       |-> <<TRUE, FALSE>>,
                  temperature       |-> 245,
                  fan_running       |-> TRUE,
                  regulator_voltage |-> 11980 * (Unit \div 1000),
                  other             |-> <<>>]

\* C16: decoding a status line with fewer colon-separated fields than the
\* family's fixed layout (Power 4, Motor 2, Servo 2) fails with an error and
\* yields no status record.
C16_TooFewFieldsFail ==
    (StatusCalled /\ Len(op.fields) < FixedFields(op.name)) =>
        /\ raised \in {"ValueError", "IndexError"}
        /\ ret = NoStatus

C16_Witness ==
    /\ op.name = "MotorBoard.status"
    /\ op.response = "0,1"
    /\ raised = "ValueError"
    /\ ret = NoStatus

\* the tokens of the last response that the driver decodes as booleans
BoolTokens ==
    CASE op.name = "PowerBoard.status" -> Append(Split(op.fields[1], ","), op.fields[3])
      [] op.name = "MotorBoard.status" -> Split(op.fields[1], ",")
      [] op.name = "ServoBoard.status" -> <<op.fields[1], op.fields[2]>>
      [] op.name = "Output.is_enabled" -> <<op.response>>
      [] op.name = "PowerBoard.start_button" -> op.fields

\* the last response has all its fields, and a boolean token among them is
\* neither 1 nor 0
BadBoolean ==
    /\ \/ StatusCalled /\ Len(op.fields) >= FixedFields(op.name)
       \/ op.name = "Output.is_enabled"
       \/ op.name = "PowerBoard.start_button" /\ Len(op.fields) = 2
    /\ \E i \in 1..Len(BoolTokens) : BoolTokens[i] \notin {"0", "1"}

\* C17: a response whose boolean token is neither 1 nor 0 is reported as an
\* error and is never decoded as false.
C17_BadBooleanIsError ==
    BadBoolean => raised # "none"

----------------------------------------------------------------------------
(* Construction against boards whose identity line has fields missing: the *)
(* drivers of Spec, with more *IDN? responses and only the operations that *)
(* matter to construction.                                                 *)

\* identity lines of two and of three fields, with the board's own type code
ShortIdnReplies(b) ==
    {<<"Student Robotics", b>>, <<"Student Robotics", b, "sr0AB1">>}

IdentifyInit ==
    /\ proc = "running"
    /\ link = "up"
    /\ board \in BoardTypes
    /\ idn \in IdnReplies(board) \cup ShortIdnReplies(board)
    /\ fw = PowerOn
    /\ family = "none"
    /\ drv = "none"
    /\ serial = [state |-> "unopened", identity |-> BoardIdentity(<<>>), lost |-> FALSE]
    /\ hooks = <<>>
    /\ op = NoOp("start")
    /\ trace = <<>>
    /\ raised = "none"
    /\ ret = 0
    /\ lastSet = NoHistory

IdentifyNext ==
    \/ \E f \in Families, i \in InitialIdentities : Construct(f, i)
    \/ Reset
    \/ Unplug
    \/ ProcessExit

IdentifySpec == IdentifyInit /\ [][IdentifyNext]_vars

\* C18: identify() accepts only an identity response of exactly 4 fields: with
\* fewer or more fields construction fails, and no BoardIdentity whose missing
\* fields were defaulted to the empty string is pushed into the Transport.
C18_IdentityHasFourFields ==
    (drv # "none" /\ Len(idn) # 4) =>
        /\ drv = "failed"
        /\ serial.identity \in InitialIdentities
        /\ op.name = "construct" =>
              /\ raised # "none"
              /\ ~HasEvent(trace, "set_identity")

----------------------------------------------------------------------------
(* Discovery.  comports() is a sequence of port records in the order the   *)
(* OS enumerates them.  An attribute that is None is the empty sequence    *)
(* and a present one a one-element sequence.  descriptor says whether      *)
(* reading the port's descriptor strings succeeds ("ok") or raises.        *)

\* the longest enumeration tried
MaxPorts == 3

VidPid(vendor_id, product_id) == [vendor_id |-> vendor_id, product_id |-> product_id]

\* power_board.VIDPID (0x1BDA:0x0010), motor_board.VIDPID (0x0403:0x6001, the
\* FTDI chip of the motor board) and servo_board.VIDPID (0x1BDA:0x0011)
PowerVidPid == VidPid(7130, 16)
MotorVidPid == VidPid(1027, 24577)
ServoVidPid == VidPid(7130, 17)

\* Port(port, identity)
Port(device, identity) == [port |-> device, identity |-> identity]

\* x or ""
OrEmpty(x) == IF x = <<>> THEN "" ELSE x[1]

\* an identity read without the try/except around it
get_USB_identity_unguarded(port) ==
    IF port.descriptor = "ok"
    THEN [raised |-> "none", warned |-> FALSE,
          identity |-> BoardIdentity(<<OrEmpty(port.manufacturer),
                                       OrEmpty(port.product),
                                       OrEmpty(port.serial_number)>>)]
    ELSE [raised |-> "Exception", warned |-> FALSE, identity |-> BoardIdentity(<<>>)]

\* get_USB_identity: any exception while reading the descriptor is logged and
\* gives BoardIdentity()
get_USB_identity(port) ==
    IF port.descriptor = "ok"
    THEN [raised |-> "none", warned |-> FALSE,
          identity |-> BoardIdentity(<<OrEmpty(port.manufacturer),
                                       OrEmpty(port.product),
                                       OrEmpty(port.serial_number)>>)]
    ELSE [raised |-> "none", warned |-> TRUE, identity |-> BoardIdentity(<<>>)]

\* vidpid in pidvids, for a list
InList(vidpid, pidvids) == \E i \in 1..Len(pidvids) : pidvids[i] = vidpid

\* the loop over comports(): done is the result so far
RECURSIVE ScanPorts(_, _, _)
ScanPorts(ports, pidvids, done) ==
    IF ports = <<>> \/ done.raised # "none" THEN done
    ELSE LET port == Head(ports)
         IN  IF port.vid = <<>> \/ port.pid = <<>>
             THEN ScanPorts(Tail(ports), pidvids, done)
             ELSE IF ~InList(VidPid(port.vid[1], port.pid[1]), pidvids)
             THEN ScanPorts(Tail(ports), pidvids, done)
             ELSE LET id == get_USB_identity(port)
                  IN  ScanPorts(Tail(ports), pidvids,
                        IF id.raised # "none"
                        THEN [boards |-> <<>>, trace |-> done.trace, raised |-> id.raised]
                        ELSE [boards |-> Append(done.boards, Port(port.device, id.identity)),
                              trace  |-> IF id.warned
                                         THEN Append(done.trace,
                                                     Ev("logger.warning", port.device))
                                         ELSE done.trace,
                              raised |-> "none"])

NoBoards == [boards |-> <<>>, trace |-> <<>>, raised |-> "none"]

\* a scan that returns every device that has a vendor and a product ID
discover_boards_unfiltered(pidvids, ports) ==
    ScanPorts(ports,
              [i \in 1..Len(ports) |->
                  IF ports[i].vid = <<>> \/ ports[i].pid = <<>> THEN PowerVidPid
                  ELSE VidPid(ports[i].vid[1], ports[i].pid[1])],
              NoBoards)

\* discover_boards(pidvids), with ports the value of comports(); pidvids is
\* [type |-> "VidPid", value |-> a VidPid] or [type |-> "list", value |-> a
\* sequence of VidPids]
discover_boards(pidvids, ports) ==
    ScanPorts(ports,
              IF pidvids.type = "VidPid" THEN <<pidvids.value>> ELSE pidvids.value,
              NoBoards)

----------------------------------------------------------------------------
(* Discovery on its own: devices are plugged in one after another, and     *)
(* discover_boards is called with candidate sets drawn from a small set.   *)
(* op holds what comports() enumerates and the argument of the last call,  *)
(* ret the list returned, trace the warnings logged.                       *)

\* what the OS may report for one port: a power board, a servo board without
\* a manufacturer string, a motor board whose descriptor cannot be read, and
\* two devices that lack a vendor or a product ID
PortKinds ==
    {[vid |-> <<PowerVidPid.vendor_id>>, pid |-> <<PowerVidPid.product_id>>,
      manufacturer |-> <<"Student Robotics">>, product |-> <<"PBv4B">>,
      serial_number |-> <<"sr0AB1">>, descriptor |-> "ok"],
     [vid |-> <<ServoVidPid.vendor_id>>, pid |-> <<ServoVidPid.product_id>>,
      manufacturer |-> <<>>, product |-> <<"SBv4B">>,
      serial_number |-> <<"sr0CD2">>, descriptor |-> "ok"],
     [vid |-> <<MotorVidPid.vendor_id>>, pid |-> <<MotorVidPid.product_id>>,
      manufacturer |-> <<"FTDI">>, product |-> <<"FT232R">>,
      serial_number |-> <<"A1">>, descriptor |-> "error"],
     [vid |-> <<>>, pid |-> <<PowerVidPid.product_id>>,
      manufacturer |-> <<>>, product |-> <<>>,
      serial_number |-> <<>>, descriptor |-> "ok"],
     [vid |-> <<PowerVidPid.vendor_id>>, pid |-> <<>>,
      manufacturer |-> <<>>, product |-> <<>>,
      serial_number |-> <<>>, descriptor |-> "ok"]}

\* the candidate sets: none, one VidPid on its own, the same in a list, and
\* a list that names a pair twice
Candidates ==
    {[type |-> "list", value |-> <<>>],
     [type |-> "VidPid", value |-> PowerVidPid],
     [type |-> "list", value |-> <<PowerVidPid>>],
     [type |-> "list", value |-> <<MotorVidPid, PowerVidPid, PowerVidPid>>]}

\* no call yet, and no port enumerated
NoScan == [name |-> "comports", pidvids |-> [type |-> "list", value |-> <<>>],
           comports |-> <<>>]

DiscoveryInit ==
    /\ proc = "running"
    /\ link = "up"
    /\ board = "MCv4B"
    /\ idn = <<>>
    /\ fw = PowerOn
    /\ family = "none"
    /\ drv = "none"
    /\ serial = [state |-> "unopened", identity |-> BoardIdentity(<<>>), lost |-> FALSE]
    /\ hooks = <<>>
    /\ op = NoScan
    /\ trace = <<>>
    /\ raised = "none"
    /\ ret = <<>>
    /\ lastSet = NoHistory

\* a device of some kind is plugged in: comports() lists it after the others,
\* as /dev/ttyACM<n>
Attach(kind) ==
    /\ proc = "running"
    /\ Len(op.comports) < MaxPorts
    /\ op' = [NoScan EXCEPT !.comports =
                 Append(op.comports,
                        [device |-> "/dev/ttyACM" \o ToString(Len(op.comports)),
                         vid |-> kind.vid, pid |-> kind.pid,
                         manufacturer |-> kind.manufacturer,
                         product |-> kind.product,
                         serial_number |-> kind.serial_number,
                         descriptor |-> kind.descriptor])]
    /\ ret' = <<>>
    /\ trace' = <<>>
    /\ raised' = "none"
    /\ UNCHANGED <<proc, link, board, idn, fw, family, drv, serial, hooks, lastSet>>

\* discover_boards(pidvids)
Discover(pidvids) ==
    /\ proc = "running"
    /\ LET r == discover_boards(pidvids, op.comports)
       IN  /\ ret' = r.boards
           /\ trace' = r.trace
           /\ raised' = r.raised
    /\ op' = [name |-> "discover_boards", pidvids |-> pidvids, comports |-> op.comports]
    /\ UNCHANGED <<proc, link, board, idn, fw, family, drv, serial, hooks, lastSet>>

DiscoveryNext ==
    \/ \E kind \in PortKinds : Attach(kind)
    \/ \E pidvids \in Candidates : Discover(pidvids)

DiscoverySpec == DiscoveryInit /\ [][DiscoveryNext]_vars

----------------------------------------------------------------------------
(* Properties of discovery, checked under DiscoverySpec *)

\* the set of pairs a candidate argument stands for
CandidateSet(pidvids) ==
    IF pidvids.type = "VidPid" THEN {pidvids.value}
    ELSE {pidvids.value[i] : i \in 1..Len(pidvids.value)}

\* port has both IDs and its pair is in S
Matching(port, S) ==
    /\ port.vid # <<>>
    /\ port.pid # <<>>
    /\ VidPid(port.vid[1], port.pid[1]) \in S

\* the enumerated ports that match the candidates of the last call, in
\* enumeration order
Wanted == SelectSeq(op.comports, LAMBDA port : Matching(port, CandidateSet(op.pidvids)))

\* C19: discover_boards(S) returns, in enumeration order, exactly one Port for
\* each enumerated device that has both IDs and whose pair is in S; an empty S
\* gives an empty list, and a single VidPid gives what the one-element list
\* containing it gives.
C19_DiscoveryExact ==
    op.name = "discover_boards" =>
        /\ raised = "none"
        /\ Len(ret) = Len(Wanted)
        /\ \A i \in 1..Len(ret) : ret[i].port = Wanted[i].device
        /\ CandidateSet(op.pidvids) = {} => ret = <<>>
        /\ op.pidvids.type = "VidPid" =>
              ret = discover_boards([type |-> "list", value |-> <<op.pidvids.value>>],
                                    op.comports).boards

\* a power board, a servo board and a second power board, looked for with a
\* single VidPid
C19_Witness ==
    /\ op.name = "discover_boards"
    /\ op.pidvids = [type |-> "VidPid", value |-> PowerVidPid]
    /\ Len(op.comports) = 3
    /\ Len(ret) = 2
    /\ ret[1].port = "/dev/ttyACM0"
    /\ ret[2].port = "/dev/ttyACM2"
    /\ ret[1].identity.board_type = "PBv4B"

\* C20: a device lacking a vendor or a product ID is skipped, and a matching
\* device whose descriptor cannot be read is still returned, with an all-empty
\* BoardIdentity and a warning; every other matching device of the scan is
\* returned with the identity of its descriptor.
C20_BadDeviceDoesNotAbort ==
    op.name = "discover_boards" =>
        /\ raised = "none"
        /\ Len(ret) = Len(Wanted)
        /\ \A i \in 1..Len(Wanted) :
              /\ ret[i].port = Wanted[i].device
              /\ ret[i].identity =
                    IF Wanted[i].descriptor = "ok"
                    THEN BoardIdentity(<<OrEmpty(Wanted[i].manufacturer),
                                         OrEmpty(Wanted[i].product),
                                         OrEmpty(Wanted[i].serial_number)>>)
                    ELSE BoardIdentity(<<>>)
              /\ Wanted[i].descriptor # "ok" =>
                    HasEvent(trace, "logger.warning")
        /\ \A i \in 1..Len(op.comports) :
              (op.comports[i].vid = <<>> \/ op.comports[i].pid = <<>>) =>
                  \A j \in 1..Len(ret) : ret[j].port # op.comports[i].device

\* an unreadable motor board, a device without a vendor ID and a power board
C20_Witness ==
    /\ op.name = "discover_boards"
    /\ Len(op.comports) = 3
    /\ op.comports[1].descriptor = "error"
    /\ op.comports[2].vid = <<>>
    /\ Len(ret) = 2
    /\ ret[1] = Port("/dev/ttyACM0", BoardIdentity(<<>>))
    /\ ret[2].identity.manufacturer = "Student Robotics"
    /\ trace = <<Ev("logger.warning", "/dev/ttyACM0")>>

----------------------------------------------------------------------------
(* Disconnection and reattachment: a board that dropped off the bus comes  *)
(* back, and the test loop builds a new driver for it                      *)

\* drivers one process constructs one after the other
MaxDrivers == 2

\* the board is reattached (or its supply comes back): the firmware restarts
Replug ==
    /\ proc = "running" /\ link = "down"
    /\ link' = "up"
    /\ fw' = PowerOn
    /\ op' = NoOp("replug")
    /\ UNCHANGED <<proc, board, idn, family, drv, serial, hooks, trace,
                   raised, ret, lastSet>>

\* the next iteration of `while True: test_board(...)`: discovery runs again
\* and a new driver, with a new Transport, replaces the previous one
Reconstruct(f, initial_identity) ==
    /\ proc = "running" /\ drv # "none" /\ link = "up"
    /\ Len(hooks) < MaxDrivers
    /\ LET r == DriverInit(f, idn)
           s == SerialWrapper(initial_identity)
       IN  /\ family' = f
           /\ drv' = IF r.raised = "none" THEN "ready" ELSE "failed"
           /\ serial' = IF r.set_identity THEN [s EXCEPT !.identity = r.identity] ELSE s
           /\ hooks' = IF r.registered THEN Append(hooks, f) ELSE hooks
           /\ trace' = r.trace
           /\ raised' = r.raised
    /\ op' = NoOp("reconstruct")
    /\ ret' = 0
    /\ UNCHANGED <<proc, link, board, idn, fw, lastSet>>

ReconnectNext ==
    \/ \E f \in Families, i \in InitialIdentities : Construct(f, i)
    \/ \E f \in Families, i \in InitialIdentities : Reconstruct(f, i)
    \/ Reset
    \/ \E n \in 0..(NumMotors - 1) : GetPower(n)
    \/ Unplug
    \/ Replug

ReconnectSpec == Init /\ [][ReconnectNext]_vars

\* the operation of the step was a query or write through the driver's Transport
Exchanged(o) == o.name \in {"reset", "get_power"}

----------------------------------------------------------------------------
(* The serial lane: what the firmware sends back sits in the Transport's   *)
(* input buffer until a query reads a line from it                         *)

OutGetCmd(n) == "OUT:" \o ToString(n) \o ":GET?"

\* a firmware that acknowledges every command it executes
FwReply_acknowledging(f, cmd) ==
    IF \E n \in 0..(NumOutputs - 1) : cmd = OutGetCmd(n)
    THEN LET n == CHOOSE n \in 0..(NumOutputs - 1) : cmd = OutGetCmd(n)
         IN  <<ToString(BoolD(f.outputs[n]))>>
    ELSE <<"ACK">>

\* the lines the power board sends back for cmd: one line for OUT:<n>:GET?,
\* a NACK for the refused OUT:4:SET, nothing for the other commands the
\* drivers send through write
FwReply(f, cmd) ==
    IF \E n \in 0..(NumOutputs - 1) : cmd = OutGetCmd(n)
    THEN LET n == CHOOSE n \in 0..(NumOutputs - 1) : cmd = OutGetCmd(n)
         IN  <<ToString(BoolD(f.outputs[n]))>>
    ELSE IF cmd \in {OutSetCmd(BRAIN_OUTPUT, 0), OutSetCmd(BRAIN_OUTPUT, 1)}
    THEN <<"NACK">>
    ELSE <<>>

\* write(command): the framed command goes out, nothing is read
Transport_write(s, f, cmd) ==
    [serial |-> [s EXCEPT !.rx = @ \o FwReply(f, cmd)],
     fw     |-> FwPower(f, cmd)]

RECURSIVE Transport_write_all(_, _, _)
Transport_write_all(s, f, cmds) ==
    IF cmds = <<>> THEN [serial |-> s, fw |-> f]
    ELSE LET w == Transport_write(s, f, Head(cmds))
         IN  Transport_write_all(w.serial, w.fw, Tail(cmds))

\* query(command): the command goes out and the next full line is read
Transport_query(s, f, cmd) ==
    LET rx == s.rx \o FwReply(f, cmd)
    IN  [serial |-> [s EXCEPT !.rx = Tail(rx)], line |-> Head(rx)]

\* a constructed power driver on its own board; the identify exchange of the
\* constructor has been read
LaneInit ==
    /\ proc = "running"
    /\ link = "up"
    /\ board = "PBv4B"
    /\ idn \in {r \in IdnReplies("PBv4B") : PowerBoard_init(r).raised = "none"}
    /\ fw = PowerOn
    /\ family = "Power"
    /\ drv = "ready"
    /\ serial = [state |-> "open", identity |-> BoardIdentity(idn), lost |-> FALSE,
                 rx |-> <<>>]
    /\ hooks = <<"Power">>
    /\ op = NoOp("construct")
    /\ trace = PowerBoard_init(idn).trace
    /\ raised = "none"
    /\ ret = 0
    /\ lastSet = NoHistory

\* an operation of the power driver that writes cmds
LaneWrite(o, cmds) ==
    /\ LET w == Transport_write_all(serial, fw, cmds)
       IN  serial' = w.serial /\ fw' = w.fw
    /\ op' = o
    /\ trace' = Writes(cmds)
    /\ raised' = "none"
    /\ ret' = 0
    /\ UNCHANGED <<proc, link, board, idn, family, drv, hooks, lastSet>>

\* board.reset()
LaneReset == Ready /\ LaneWrite(NoOp("reset"), PowerBoard_reset)

\* board.outputs[n].enable(value)
LaneEnable(n, value) ==
    /\ Ready
    /\ LaneWrite([name |-> "enable", ch |-> n, arg |-> BoolD(value)],
                 Output_enable(n, value))

\* board.outputs[n].is_enabled()
LaneIsEnabled(n) ==
    /\ Ready
    /\ LET q == Transport_query(serial, fw, OutGetCmd(n))
       IN  /\ serial' = q.serial
           /\ ret' = [line |-> q.line, value |-> Output_is_enabled(q.line).status.value]
    /\ op' = [name |-> "is_enabled", ch |-> n, arg |-> 0]
    /\ trace' = <<Ev("query", OutGetCmd(n))>>
    /\ raised' = "none"
    /\ UNCHANGED <<proc, link, board, idn, fw, family, drv, hooks, lastSet>>

LaneNext ==
    \/ LaneReset
    \/ \E n \in 0..(NumOutputs - 1), value \in BOOLEAN : LaneEnable(n, value)
    \/ \E n \in 0..(NumOutputs - 1) : LaneIsEnabled(n)

LaneSpec == LaneInit /\ [][LaneNext]_vars

----------------------------------------------------------------------------
(* identify() called on a constructed driver *)

\* an identify() that would store what it parsed in the Transport
Board_identify_storing(s, line) ==
    LET id == identify(line)
    IN  [raised |-> id.raised, identity |-> id.identity,
         serial |-> IF id.raised = "none" THEN [s EXCEPT !.identity = id.identity]
                    ELSE s]

\* MotorBoard.identify / PowerBoard.identify / ServoBoard.identify: the
\* response to *IDN? is parsed and returned; self._serial is only queried
Board_identify(s, line) ==
    LET id == identify(line)
    IN  [raised |-> id.raised, identity |-> id.identity, serial |-> s]

\* board.identify()
Identify ==
    /\ Ready
    /\ LET error == TransportError(serial, link)
           r == Board_identify(serial, idn)
       IN  /\ raised' = IF error = "none" THEN r.raised ELSE error
           /\ trace' = IF error = "none" THEN <<Ev("query", "*IDN?")>> ELSE <<>>
           /\ ret' = IF error = "none" THEN r.identity ELSE BoardIdentity(<<>>)
           /\ serial' = AfterExchange(IF error = "none" THEN r.serial ELSE serial, link)
    /\ op' = NoOp("identify")
    /\ UNCHANGED <<proc, link, board, idn, fw, family, drv, hooks, lastSet>>

\* between two calls the board on the port is exchanged for another of the
\* same type, whose firmware answers *IDN? differently
Swap ==
    /\ proc = "running" /\ link = "down"
    /\ link' = "up"
    /\ fw' = PowerOn
    /\ idn' \in IdnReplies(board) \ {idn}
    /\ op' = NoOp("replug")
    /\ UNCHANGED <<proc, board, family, drv, serial, hooks, trace, raised, ret,
                   lastSet>>

IdentityNext ==
    \/ \E f \in Families, i \in InitialIdentities : Construct(f, i)
    \/ Identify
    \/ Reset
    \/ Unplug
    \/ Swap

IdentitySpec == Init /\ [][IdentityNext]_vars

\* the positions of the events of one kind in a trace
Positions(t, kind) == {i \in 1..Len(t) : t[i].kind = kind}

\* C23: the Transport's identity is replaced exactly once per driver, by the
\* constructor, after the board_type check has passed and with the identity
\* of that first identify exchange; a constructor that fails replaces
\* nothing, and a later identify() returns what it parsed and leaves the
\* stored identity as it is
C23_IdentitySetOnceByConstructor ==
    [][/\ (drv = "none" /\ drv' = "ready") =>
            /\ serial'.identity = BoardIdentity(idn)
            /\ Cardinality(Positions(trace', "set_identity")) = 1
            /\ \A i \in Positions(trace', "set_identity") :
                 \E j \in Positions(trace', "assert") : j < i
       /\ (drv = "none" /\ drv' = "failed") =>
            /\ serial'.identity \in InitialIdentities
            /\ Positions(trace', "set_identity") = {}
       /\ drv # "none" => serial'.identity = serial.identity
       /\ (drv # "none" /\ op'.name = "identify" /\ raised' = "none") =>
            ret' = BoardIdentity(idn)]_vars

\* a later identify() returned an identity other than the stored one
C23_Witness ==
    /\ drv = "ready" /\ op.name = "identify" /\ raised = "none"
    /\ ret = BoardIdentity(idn)
    /\ serial.identity # ret

----------------------------------------------------------------------------
(* Servo channels *)

START_DUTY_MIN == 1000
START_DUTY_MAX == 2000
NumServos == 12

ServoSetCmd(n, v) == "SERVO:" \o ToString(n) \o ":SET:" \o ToString(v)
ServoDisableCmd(n) == "SERVO:" \o ToString(n) \o ":DISABLE"

\* a set_position that tests the value's truth (`if not value`)
Servo_set_position_falsy(index, value) ==
    IF value = <<>> \/ value = <<0>> THEN <<ServoDisableCmd(index)>>
    ELSE <<ServoSetCmd(index, map_to_int(value[1], -Unit, Unit,
                                          START_DUTY_MIN, START_DUTY_MAX))>>

\* Servo.set_position(value); value is <<>> for None and <<v>> for a float v.
\* None goes to Servo.disable(); self._duty_min and self._duty_max are set in
\* Servo.__init__ and nowhere else
Servo_set_position(index, value) ==
    IF value = <<>> THEN <<ServoDisableCmd(index)>>
    ELSE <<ServoSetCmd(index, map_to_int(value[1], -Unit, Unit,
                                          START_DUTY_MIN, START_DUTY_MAX))>>

\* positions handed to set_position: None and the dyadic grid on [-1.0, 1.0]
ServoInputs ==
    {<<>>} \cup {<<i * (Unit \div PowerDen)>> : i \in (-PowerDen)..PowerDen}

\* board.servos[n].set_position(value)
SetPosition(n, value) ==
    /\ Ready /\ family = "Servo"
    /\ Send([name |-> "set_position", ch |-> n, arg |-> value],
            Servo_set_position(n, value))
    /\ UNCHANGED lastSet

ServoNext ==
    \/ \E f \in Families, i \in InitialIdentities : Construct(f, i)
    \/ \E n \in 0..(NumServos - 1), value \in ServoInputs : SetPosition(n, value)
    \/ Reset
    \/ Unplug

ServoSpec == Init /\ [][ServoNext]_vars

\* the duty of a position command, for the channel and window given
SentDuty(t, n) ==
    {d \in START_DUTY_MIN..START_DUTY_MAX : t = <<Ev("write", ServoSetCmd(n, d))>>}

\* C25: with the window [1000, 2000] every channel starts with, set_position(v)
\* for v in [-1.0, 1.0] sends exactly SERVO:<n>:SET:<duty> with duty inside the
\* window, the minimum for -1.0, the maximum for 1.0 and the middle for 0;
\* set_position(None) sends exactly SERVO:<n>:DISABLE
C25_ServoDutyInsideWindow ==
    (op.name = "set_position" /\ raised = "none") =>
        IF op.arg = <<>>
        THEN trace = <<Ev("write", ServoDisableCmd(op.ch))>>
        ELSE /\ SentDuty(trace, op.ch) # {}
             /\ op.arg = <<-Unit>> => SentDuty(trace, op.ch) = {START_DUTY_MIN}
             /\ op.arg = <<Unit>> => SentDuty(trace, op.ch) = {START_DUTY_MAX}
             /\ op.arg = <<0>> =>
                    SentDuty(trace, op.ch) = {(START_DUTY_MIN + START_DUTY_MAX) \div 2}

\* set_position(0) went out as a position command on the last channel
C25_Witness ==
    /\ op.name = "set_position" /\ op.arg = <<0>> /\ op.ch = NumServos - 1
    /\ trace = <<Ev("write", ServoSetCmd(NumServos - 1, 1500))>>

----------------------------------------------------------------------------
(* Every operation of the three drivers and of their channel objects, with *)
(* the commands it sends and the Transport method it sends them through    *)

\* a method of the driver or of channel ch sending cmds through query or write
Sends(method, ch, kind, cmds) ==
    [method |-> method, ch |-> ch,
     events |-> [i \in 1..Len(cmds) |-> Ev(kind, cmds[i])]]

MotorBoard_operations ==
    {Sends("MotorBoard.identify", -1, "query", <<"*IDN?">>),
     Sends("MotorBoard.status", -1, "query", <<"*STATUS?">>),
     Sends("MotorBoard.reset", -1, "write", MotorBoard_reset)}
    \cup UNION {
        {Sends("Motor.get_power", n, "query", <<MotGetCmd(n)>>),
         Sends("Motor.current", n, "query", <<"MOT:" \o ToString(n) \o ":I?">>),
         Sends("Motor.in_fault", n, "query", <<"*STATUS?">>)}
        \cup {Sends("Motor.set_power", n, "write", Motor_set_power(n, v)) :
                v \in PowerInputs}
        : n \in 0..(NumMotors - 1)}

PowerBoard_operations ==
    {Sends("PowerBoard.identify", -1, "query", <<"*IDN?">>),
     Sends("PowerBoard.status", -1, "query", <<"*STATUS?">>),
     Sends("PowerBoard.reset", -1, "write", PowerBoard_reset),
     Sends("PowerBoard.start_button", -1, "query", <<"BTN:START:GET?">>),
     Sends("BatterySensor.voltage", -1, "query", <<"BATT:V?">>),
     Sends("BatterySensor.current", -1, "query", <<"BATT:I?">>)}
    \cup {Sends("PowerBoard.enable_fan", -1, "write",
                <<"*SYS:FAN:SET:" \o ToString(BoolD(v))>>) : v \in BOOLEAN}
    \cup {Sends("Piezo.buzz", -1, "write", Piezo_buzz(b[1], b[2])) : b \in BuzzInputs}
    \cup UNION {
        {Sends("Led.on", -1, "write", <<"LED:" \o led \o ":SET:1">>),
         Sends("Led.off", -1, "write", <<"LED:" \o led \o ":SET:0">>),
         Sends("Led.flash", -1, "write", <<"LED:" \o led \o ":SET:F">>)}
        : led \in {"RUN", "ERR"}}
    \cup UNION {
        {Sends("Output.is_enabled", n, "query", <<OutGetCmd(n)>>),
         Sends("Output.current", n, "query", <<"OUT:" \o ToString(n) \o ":I?">>),
         Sends("Output.overcurrent", n, "query", <<"*STATUS?">>)}
        \cup {Sends("Output.enable", n, "write", Output_enable(n, v)) : v \in BOOLEAN}
        : n \in 0..(NumOutputs - 1)}

ServoBoard_operations ==
    {Sends("ServoBoard.identify", -1, "query", <<"*IDN?">>),
     Sends("ServoBoard.status", -1, "query", <<"*STATUS?">>),
     Sends("ServoBoard.reset", -1, "write", ServoBoard_reset),
     Sends("ServoBoard.current", -1, "query", <<"SERVO:I?">>),
     Sends("ServoBoard.voltage", -1, "query", <<"SERVO:V?">>)}
    \cup UNION {
        {Sends("Servo.get_position", n, "query",
               <<"SERVO:" \o ToString(n) \o ":GET?">>),
         Sends("Servo.disable", n, "write", <<ServoDisableCmd(n)>>)}
        \cup {Sends("Servo.set_position", n, "write", Servo_set_position(n, v)) :
                v \in ServoInputs}
        : n \in 0..(NumServos - 1)}

\* one call of a method of the constructed driver; what the board answers is
\* left out
Operate(o) ==
    /\ Ready
    /\ o \in CASE family = "Motor" -> MotorBoard_operations
               [] family = "Power" -> PowerBoard_operations
               [] family = "Servo" -> ServoBoard_operations
    /\ op' = [name |-> o.method, ch |-> o.ch, arg |-> 0]
    /\ trace' = o.events
    /\ raised' = "none"
    /\ ret' = 0
    /\ UNCHANGED <<proc, link, board, idn, fw, family, drv, serial, hooks, lastSet>>

CommandNext ==
    \/ \E f \in Families, i \in InitialIdentities : Construct(f, i)
    \/ \E o \in MotorBoard_operations \cup PowerBoard_operations
                    \cup ServoBoard_operations : Operate(o)

CommandSpec == Init /\ [][CommandNext]_vars

IsQueryCommand(cmd) == SubSeq(cmd, Len(cmd), Len(cmd)) = "?"

\* C24: in every operation of the three drivers and their channel objects, a
\* command sent through query ends with "?" and a command sent through write
\* does not
C24_QueriesAskWritesTell ==
    \A i \in 1..Len(trace) :
        /\ trace[i].kind = "query" => IsQueryCommand(trace[i].cmd)
        /\ trace[i].kind = "write" => ~IsQueryCommand(trace[i].cmd)

\* PowerBoard.reset has sent its two commands, both through write
C24_Witness ==
    /\ family = "Power" /\ op.name = "PowerBoard.reset"
    /\ trace = <<Ev("write", "*RESET"), Ev("write", "*SYS:BRAIN:SET:0")>>

----------------------------------------------------------------------------
(* The board test procedures: main() of motor_test, power_test and         *)
(* servo_test runs test_board() in a loop.  op.name is the position of the *)
(* procedure, op.test the driver class the procedure tests, raised the     *)
(* exception on its way out.  Of the try block only the exchanges that     *)
(* matter afterwards are kept: identify(), reset() and, in the power test, *)
(* the buzzer call.                                                        *)

At(name, test) == [name |-> name, test |-> test, ch |-> -1, arg |-> 0]

TestLoopInit ==
    /\ proc = "running"
    /\ link = "up"
    /\ board \in BoardTypes
    /\ idn \in IdnReplies(board)
    /\ fw = PowerOn
    /\ family = "none"
    /\ drv = "none"
    /\ serial = [state |-> "unopened", identity |-> BoardIdentity(<<>>), lost |-> FALSE]
    /\ hooks = <<>>
    /\ op \in {At("main", f) : f \in Families}
    /\ trace = <<>>
    /\ raised = "none"
    /\ ret = 0
    /\ lastSet = NoHistory

\* board.close() as the class of the driver defines it: MotorBoard.close()
\* stops the Transport, PowerBoard and ServoBoard have no such attribute
Board_close(f, s) ==
    IF f = "Motor"
    THEN [raised |-> "none", serial |-> [s EXCEPT !.state = "closed"],
          trace |-> <<Ev("stop", "")>>]
    ELSE [raised |-> "AttributeError", serial |-> s, trace |-> <<>>]

\* test_board up to the try block: discover_boards, `return` when nothing is
\* found, else the constructor, whose exception leaves test_board
TestBoard_construct(initial_identity) ==
    /\ proc = "running" /\ op.name = "main"
    /\ IF link = "down"
       THEN /\ op' = At("left", op.test)
            /\ trace' = <<Ev("log", "No boards found.")>>
            /\ raised' = "none"
            /\ UNCHANGED <<family, drv, serial, hooks>>
       ELSE LET r == DriverInit(op.test, idn)
                s == SerialWrapper(initial_identity)
            IN  /\ family' = op.test
                /\ drv' = IF r.raised = "none" THEN "ready" ELSE "failed"
                /\ serial' = IF r.set_identity THEN [s EXCEPT !.identity = r.identity]
                             ELSE s
                /\ hooks' = IF r.registered THEN Append(hooks, op.test) ELSE hooks
                /\ trace' = r.trace
                /\ raised' = r.raised
                /\ op' = At(IF r.raised = "none" THEN "try" ELSE "left", op.test)
    /\ ret' = 0
    /\ UNCHANGED <<proc, link, board, idn, fw, lastSet>>

\* the try block: it runs to `results['passed'] = True` (in the power test
\* past board.piezo.buzz(0.5, 1000)), or one of its checks fails, or an
\* exchange finds the board gone
TestBoard_try(passed) ==
    /\ proc = "running" /\ op.name = "try"
    /\ LET error == TransportError(serial, link)
           sent  == Writes(CASE op.test = "Power" ->
                                    PowerBoard_reset \o Piezo_buzz(Unit \div 2, 1000 * Unit)
                             [] op.test = "Motor" -> MotorBoard_reset
                             [] op.test = "Servo" -> ServoBoard_reset)
       IN  /\ raised' = IF error # "none" THEN error
                        ELSE IF passed THEN "none" ELSE "AssertionError"
           /\ trace' = IF error # "none" THEN <<>>
                       ELSE IF passed THEN <<Ev("query", "*IDN?")>> \o sent
                       ELSE <<Ev("query", "*IDN?"), Ev("assert", "")>>
           /\ fw' = IF error = "none" /\ passed THEN FwApply(board, fw, sent) ELSE fw
    /\ serial' = AfterExchange(serial, link)
    /\ op' = At("finally", op.test)
    /\ ret' = [passed |-> raised' = "none"]
    /\ UNCHANGED <<proc, link, board, idn, family, drv, hooks, lastSet>>

\* the finally block: writerow(results), board.reset() and, in power_test
\* and servo_test, board.close(); an exception raised here replaces the one
\* on its way out
TestBoard_finally ==
    /\ proc = "running" /\ op.name = "finally"
    /\ LET reset == WriteAll(serial, link,
                             CASE family = "Power" -> PowerBoard_reset
                               [] family = "Motor" -> MotorBoard_reset
                               [] family = "Servo" -> ServoBoard_reset)
           after == AfterExchange(serial, link)
           close == IF op.test \in {"Power", "Servo"} /\ reset.raised = "none"
                    THEN Board_close(family, after)
                    ELSE [raised |-> "none", serial |-> after, trace |-> <<>>]
       IN  /\ trace' = <<Ev("writerow", "")>> \o reset.trace \o close.trace
           /\ raised' = IF reset.raised # "none" THEN reset.raised
                        ELSE IF close.raised # "none" THEN close.raised
                        ELSE raised
           /\ serial' = close.serial
           /\ fw' = FwApply(board, fw, Commands(reset.trace))
    /\ op' = At("left", op.test)
    /\ UNCHANGED <<proc, link, board, idn, family, drv, hooks, ret, lastSet>>

\* main(): `except AssertionError` logs the failure, then the operator is
\* asked whether to test another board; any other exception leaves main
Main_after_test(another) ==
    /\ proc = "running" /\ op.name = "left"
    /\ IF raised \in {"none", "AssertionError"}
       THEN /\ trace' = IF raised = "AssertionError"
                        THEN <<Ev("log", "Test failed"), Ev("input", "Test another?")>>
                        ELSE <<Ev("input", "Test another?")>>
            /\ raised' = "none"
            /\ op' = At(IF another THEN "main" ELSE "done", op.test)
       ELSE /\ op' = At("crashed", op.test)
            /\ UNCHANGED <<trace, raised>>
    /\ UNCHANGED <<proc, link, board, idn, fw, family, drv, serial, hooks, ret, lastSet>>

TestLoopNext ==
    \/ \E i \in InitialIdentities : TestBoard_construct(i)
    \/ \E passed \in BOOLEAN : TestBoard_try(passed)
    \/ TestBoard_finally
    \/ \E another \in BOOLEAN : Main_after_test(another)
    \/ Unplug
    \/ Replug
    \/ ProcessExit

TestLoopSpec == TestLoopInit /\ [][TestLoopNext]_vars

\* test_board was left, by return or by exception, with a board attached
\* throughout and a driver constructed
LeftConnected == op.name = "left" /\ family = op.test /\ link = "up" /\ ~serial.lost

\* C26: whenever test_board is left after it constructed a driver, the
\* Transport of that driver has been closed
C26_TransportClosedOnExit ==
    (op.name = "left" /\ family = op.test /\ drv = "ready") => serial.state = "closed"

\* C27: with the board still connected (and answering *IDN? with the four
\* fields of the protocol), a test leaves test_board by return or with an
\* AssertionError only, so main's loop goes on to ask for another board
C27_OnlyAssertionErrorLeaves ==
    (LeftConnected /\ Len(idn) = 4) => raised \in {"none", "AssertionError"}

\* C28: a constructor that fails the identity check has opened its Transport
\* and does not stop or close it before the error goes up; nothing closes it
\* afterwards, so the port stays held by the failed driver
C28_FailedConstructorKeepsPortOpen ==
    (Mismatched /\ drv = "failed") =>
        /\ serial.state = "open"
        /\ op.name = "construct" =>
              /\ raised = "AssertionError"
              /\ HasEvent(trace, "open")
              /\ ~HasEvent(trace, "stop")

\* a servo driver was refused by a power board, and the process went on
C28_Witness ==
    /\ Mismatched /\ drv = "failed" /\ family = "Servo" /\ board = "PBv4B"
    /\ op.name = "construct" /\ raised = "AssertionError"
    /\ serial.state = "open" /\ proc = "running"

----------------------------------------------------------------------------
(* The cumulative-load phase of the power test.  Voltages are in mV, as    *)
(* the firmware reports them (BATT:V? is float(response) / 1000);          *)
(* resistances are in tenths of an ohm; currents are kept exactly, in      *)
(* 1/CurrentDen mA.  The accepted voltages keep every sum at least 2 mA    *)
(* away from 25 A, so the comparison is the one binary64 makes.            *)

\* OUTPUT_RESISTANCE, by output position H0 H1 L0 L1 L2 L3 5V
OUTPUT_RESISTANCE == <<15, 15, 15, 50, 60, 15, 100>>
CurrentDen == 300
CurrentLimit == 25000 * CurrentDen

\* a loop body that would enable the output first and look at the limit after
Load_next_enabling_first(total, input_voltage, output) ==
    IF output = BRAIN_OUTPUT THEN [total |-> total, do |-> "continue"]
    ELSE IF total > CurrentLimit THEN [total |-> total, do |-> "break"]
    ELSE [total |-> total + input_voltage * 10
                               * (CurrentDen \div OUTPUT_RESISTANCE[output + 1]),
          do |-> "enable"]

\* one turn of `for output in PowerOutputPosition:` up to the enable
Load_next(total, input_voltage, output) ==
    IF output = BRAIN_OUTPUT THEN [total |-> total, do |-> "continue"]
    ELSE LET sum == total + input_voltage * 10
                               * (CurrentDen \div OUTPUT_RESISTANCE[output + 1])
         IN  [total |-> sum, do |-> IF sum > CurrentLimit THEN "break" ELSE "enable"]

\* the state before the phase: the driver is constructed, the input voltage
\* passed its check (11.5 V < v < 12.5 V) and the per-output tests left
\* every output off
LoadInit ==
    /\ proc = "running"
    /\ link = "up"
    /\ board = "PBv4B"
    /\ idn = <<"Student Robotics", "PBv4B", "sr0AB1", "4.4.1">>
    /\ fw = [PowerOn EXCEPT !.outputs = [n \in 0..(NumOutputs - 1) |-> FALSE]]
    /\ family = "Power"
    /\ drv = "ready"
    /\ serial = SerialWrapper(BoardIdentity(idn))
    /\ hooks = <<"Power">>
    /\ op \in {[name |-> "load", output |-> 0, total |-> 0, input_voltage |-> v] :
                 v \in 11501..12499}
    /\ trace = <<>>
    /\ raised = "none"
    /\ ret = 0
    /\ lastSet = NoHistory

\* one turn of the loop; in_tolerance is whether the measured battery current
\* passes log_and_assert
LoadStep(in_tolerance) ==
    /\ op.name = "load" /\ op.output < NumOutputs
    /\ LET r == Load_next(op.total, op.input_voltage, op.output)
           cmds == IF r.do = "enable" THEN Output_enable(op.output, TRUE) ELSE <<>>
       IN  /\ trace' = Writes(cmds) \o
                       (IF r.do = "enable" THEN <<Ev("query", "BATT:I?")>> ELSE <<>>)
           /\ fw' = FwApply(board, fw, Writes(cmds))
           /\ raised' = IF r.do = "enable" /\ ~in_tolerance THEN "AssertionError"
                        ELSE "none"
           /\ op' = [op EXCEPT !.total = r.total,
                               !.output = IF r.do = "break" THEN @ ELSE @ + 1,
                               !.name = IF raised' # "none" THEN "failed"
                                        ELSE IF r.do = "break" THEN "broke"
                                        ELSE "load"]
    /\ UNCHANGED <<proc, link, board, idn, family, drv, serial, hooks, ret, lastSet>>

\* `for output in PowerOutputPosition: board.outputs[output].enable(False)`
LoadDisableAll ==
    /\ op.name = "broke" \/ (op.name = "load" /\ op.output = NumOutputs)
    /\ LET RECURSIVE All(_)
           All(n) == IF n = NumOutputs THEN <<>>
                     ELSE Output_enable(n, FALSE) \o All(n + 1)
       IN  /\ trace' = Writes(All(0))
           /\ fw' = FwApply(board, fw, trace')
    /\ op' = [op EXCEPT !.name = "loaded"]
    /\ raised' = "none"
    /\ UNCHANGED <<proc, link, board, idn, family, drv, serial, hooks, ret, lastSet>>

LoadSpec ==
    LoadInit /\ [][(\E in_tolerance \in BOOLEAN : LoadStep(in_tolerance))
                      \/ LoadDisableAll]_vars

\* the expected current of the outputs 0..(n - 1) that are enabled
RECURSIVE EnabledCurrent(_, _, _)
EnabledCurrent(f, v, n) ==
    IF n = 0 THEN 0
    ELSE EnabledCurrent(f, v, n - 1)
            + (IF f.outputs[n - 1]
               THEN v * 10 * (CurrentDen \div OUTPUT_RESISTANCE[n]) ELSE 0)

\* C29: during the cumulative-load phase, for every accepted input voltage,
\* the outputs are enabled in position order, the always-on channel is never
\* enabled, and the summed expected current of the enabled outputs never
\* exceeds 25 A
C29_LoadStaysBelowLimit ==
    op.name \in {"load", "broke", "failed"} =>
        /\ EnabledCurrent(fw, op.input_voltage, NumOutputs) <= CurrentLimit
        /\ ~fw.outputs[BRAIN_OUTPUT]
        /\ \A n \in 0..(NumOutputs - 1) :
              fw.outputs[n] <=> (n < op.output /\ n # BRAIN_OUTPUT)

\* at 12.499 V the loop stopped at L1 with H0, H1 and L0 enabled
C29_Witness ==
    /\ op.name = "broke" /\ op.input_voltage = 12499 /\ op.output = 3
    /\ fw.outputs[0] /\ fw.outputs[1] /\ fw.outputs[2] /\ ~fw.outputs[3]
    /\ EnabledCurrent(fw, 12499, NumOutputs) = 3 * 12499 * 10 * 20

\* the frequencies of the NOTE commands written in a trace
NoteFrequencies(t) ==
    {PyInt(Split(t[i].cmd, ":")[2]).value :
        i \in {j \in 1..Len(t) : /\ t[j].kind = "write"
                                 /\ Split(t[j].cmd, ":")[1] = "NOTE"}}

\* C30: every NOTE:<freq>:<ms> command the power test sends has a frequency
\* in the piezo's range of 8 to 10,000 Hz
C30_BuzzFrequencyInRange ==
    \A f \in NoteFrequencies(trace) : 8 <= f /\ f <= 10000

====
